---- MODULE Spec2Model ----
(***************************************************************************)
(* relocperf (apps/relocperf/main.cpp): evaluation of relocalised camera   *)
(* poses against ground truth.                                             *)
(*                                                                         *)
(* Three specifications share this module:                                 *)
(*   SpecPose          pose_matches as a pure function of two poses        *)
(*   SpecSequence      the frame loop of evaluate_sequence, one iteration  *)
(*                     per step (SpecSequenceFair: under weak fairness)    *)
(*   SpecDriver        main: discovery, the per-sequence try/catch, the    *)
(*                     table, the averages and the CSV export              *)
(*                                                                         *)
(* Numbers.  Lengths are integers in millimetres and angles integers in    *)
(* hundredths of a degree.  A pose is a translation and a rotation about   *)
(* one fixed axis, so a rotation is its angle.  The float values of main   *)
(* are exact rationals extended with nan and inf (IEEE division by zero);  *)
(* float rounding is not modelled.                                         *)
(***************************************************************************)
EXTENDS Integers, Sequences, FiniteSets, TLC

VARIABLES
  \* SpecPose: one call of pose_matches
  mpc, argGtPose, argTestPose, matched,
  \* SpecSequence: one call of evaluate_sequence
  pc,            \* "iterate" (in the loop), "done" (returned), "thrown"
  gtFolder,      \* the ground-truth folder: what frame-%06i.pose.txt refers to
  gtIndex,       \* gtPathGenerator's index
  relocIndex,    \* relocPathGenerator's index
  res,           \* the SequenceResults being accumulated
  relocFolder,   \* the result folder: what the three pose-%06i.*.txt refer to
  accessed,      \* history: the paths whose status was queried
  \* SpecDriver: main
  mainPc, dataset, useValidation, onlineEvaluation, sequenceNames, sequenceIdx,
  results, stderr, averages, stdout, csv

poseVars == <<mpc, argGtPose, argTestPose, matched>>

seqVars == <<pc, gtFolder, relocFolder, gtIndex, relocIndex, res, accessed>>

mainVars ==
  <<mainPc, dataset, useValidation, onlineEvaluation, sequenceNames, sequenceIdx,
    results, stderr, averages, stdout, csv>>

vars == <<poseVars, seqVars, mainVars>>

\* -------------------------------------------------------------- bounds

\* Ground-truth frame slots of the folder of SpecSequence (indices 0..MaxFrames-1).
MaxFrames == 3

\* Sub-folders of the dataset folder of SpecDriver.
NumDirs == 2

\* ------------------------------------------------------ pose arithmetic

\* static const float translationMaxError = 0.05f, in millimetres.
translationMaxError == 50

\* static const float angleMaxError = 5.f * M_PI / 180.f, in hundredths of a degree.
angleMaxError == 500

HalfTurn == 180 * 100

FullTurn == 2 * HalfTurn

Pose(x, y, z, a) == [t |-> <<x, y, z>>, r |-> a]

\* (gtT - testT).squaredNorm(); norm() <= m is compared as squaredNorm <= m * m.
squaredNorm(t1, t2) ==
  (t1[1] - t2[1]) * (t1[1] - t2[1])
  + (t1[2] - t2[2]) * (t1[2] - t2[2])
  + (t1[3] - t2[3]) * (t1[3] - t2[3])

\* dr = r2 * r1.transpose(); AngleAxisf(dr).angle(), which lies in [0, pi].
angular_separation(r1, r2) ==
  LET dr == (r2 - r1) % FullTurn
  IN  IF dr > HalfTurn THEN FullTurn - dr ELSE dr

\* pose_matches with strict comparisons.
pose_matches_strict(gtPose, testPose) ==
  /\ squaredNorm(gtPose.t, testPose.t) < translationMaxError * translationMaxError
  /\ angular_separation(gtPose.r, testPose.r) < angleMaxError

pose_matches(gtPose, testPose) ==
  /\ squaredNorm(gtPose.t, testPose.t) <= translationMaxError * translationMaxError
  /\ angular_separation(gtPose.r, testPose.r) <= angleMaxError

\* ------------------------------------------------------------ files

\* What a path refers to on disk.  "missing": no such file.  "inaccessible": the
\* status query itself fails (boost::filesystem::status throws filesystem_error,
\* a std::runtime_error).  "pose": a regular file holding 16 numbers.
\* "malformed": a regular file whose content does not parse as 16 numbers.
NoPose == Pose(0, 0, 0, 0)

Missing == [kind |-> "missing", pose |-> NoPose]

Inaccessible == [kind |-> "inaccessible", pose |-> NoPose]

Malformed == [kind |-> "malformed", pose |-> NoPose]

PoseFile(p) == [kind |-> "pose", pose |-> p]

\* The poses the files of SpecSequence and SpecDriver hold.  NearPose is within both
\* thresholds of GtPose0 (exactly at both), FarPose exceeds the translation one.
GtPose0 == Pose(0, 0, 0, 0)

NearPose == Pose(30, 40, 0, 500)

FarPose == Pose(51, 0, 0, 0)

PoseSamples == {GtPose0, NearPose, FarPose}

GtContents == {Missing, Inaccessible, Malformed, PoseFile(GtPose0)}

\* What an Eigen::Matrix4f read from a file can hold: the parsed pose, or, when the
\* stream extraction fails, the indeterminate values of the uninitialised matrix.
ReadablePoses(c) == IF c.kind = "malformed" THEN PoseSamples ELSE {c.pose}

StatusFails(c) == c.kind = "inaccessible"

is_regular(c) == c.kind \in {"pose", "malformed"}

Thrown == [thrown |-> TRUE, pose |-> NoPose, match |-> FALSE]

\* read_pose_from_file: throws when the file is not regular, otherwise returns the
\* matrix the 16 extractions leave behind (no check of the stream state).
read_pose_from_file(c, parsed) ==
  IF StatusFails(c) \/ ~is_regular(c)
  THEN Thrown
  ELSE [thrown |-> FALSE, pose |-> parsed, match |-> FALSE]

\* pose_file_matches without the check of line 149.
pose_file_matches_throwing(gtPose, c, parsed) ==
  LET otherPose == read_pose_from_file(c, parsed)
  IN  IF otherPose.thrown
      THEN Thrown
      ELSE [thrown |-> FALSE, pose |-> NoPose, match |-> pose_matches(gtPose, otherPose.pose)]

\* pose_file_matches: false if the file is missing, else the match of the pose read.
pose_file_matches(gtPose, c, parsed) ==
  IF StatusFails(c)
  THEN Thrown
  ELSE IF ~is_regular(c)
  THEN [thrown |-> FALSE, pose |-> NoPose, match |-> FALSE]
  ELSE LET otherPose == read_pose_from_file(c, parsed)
       IN  IF otherPose.thrown
           THEN Thrown
           ELSE [thrown |-> FALSE, pose |-> NoPose, match |-> pose_matches(gtPose, otherPose.pose)]

\* ------------------------------------------------- SequentialPathGenerator

GtTemplate == "frame-%06i.pose.txt"

RelocTemplate == "pose-%06i.reloc.txt"

IcpTemplate == "pose-%06i.icp.txt"

FinalTemplate == "pose-%06i.final.txt"

\* A generator is its index, 0 after construction.  A path is the pattern with the
\* generator's current index substituted.
make_path(index, pattern) == [pattern |-> pattern, index |-> index]

increment_index(index) == index + 1

\* ---------------------------------------------------- evaluate_sequence

B2I(b) == IF b THEN 1 ELSE 0

EmptyResults ==
  [poseCount |-> 0,
   validPosesAfterReloc |-> 0,
   validPosesAfterICP |-> 0,
   validFinalPoses |-> 0,
   relocalizationResults |-> <<>>,
   icpResults |-> <<>>,
   finalResults |-> <<>>]

\* AccumulateStats with the counters incremented whatever the outcome.
AccumulateStatsAlways(acc, validReloc, validICP, validFinal) ==
  [poseCount |-> acc.poseCount + 1,
   validPosesAfterReloc |-> acc.validPosesAfterReloc + 1,
   validPosesAfterICP |-> acc.validPosesAfterICP + 1,
   validFinalPoses |-> acc.validFinalPoses + 1,
   relocalizationResults |-> Append(acc.relocalizationResults, validReloc),
   icpResults |-> Append(acc.icpResults, validICP),
   finalResults |-> Append(acc.finalResults, validFinal)]

\* Lines 217-227: the counters, the three vectors and poseCount.
AccumulateStats(acc, validReloc, validICP, validFinal) ==
  [poseCount |-> acc.poseCount + 1,
   validPosesAfterReloc |-> acc.validPosesAfterReloc + B2I(validReloc),
   validPosesAfterICP |-> acc.validPosesAfterICP + B2I(validICP),
   validFinalPoses |-> acc.validFinalPoses + B2I(validFinal),
   relocalizationResults |-> Append(acc.relocalizationResults, validReloc),
   icpResults |-> Append(acc.icpResults, validICP),
   finalResults |-> Append(acc.finalResults, validFinal)]

LoopStart == [res |-> EmptyResults, gtIndex |-> 0, relocIndex |-> 0]

\* The paths one iteration generates (lines 201-204).
IterationPaths(st) ==
  [gt |-> make_path(st.gtIndex, GtTemplate),
   reloc |-> make_path(st.relocIndex, RelocTemplate),
   icp |-> make_path(st.relocIndex, IcpTemplate),
   final |-> make_path(st.relocIndex, FinalTemplate)]

\* LoopContinues without the check of line 207.
GapTolerantContinues(gtC) == TRUE

\* Line 207: the loop goes on iff the ground-truth path is a regular file.
LoopContinues(gtC) == is_regular(gtC)

\* Advance without line 229.
AdvanceGtOnly(st, acc) ==
  [res |-> acc, gtIndex |-> increment_index(st.gtIndex), relocIndex |-> st.relocIndex]

\* Lines 227-229: both generators advance.
Advance(st, acc) ==
  [res |-> acc,
   gtIndex |-> increment_index(st.gtIndex),
   relocIndex |-> increment_index(st.relocIndex)]

\* One iteration of the while(true) loop (lines 198-230) on loop state st, given what
\* the four generated paths refer to and the matrices the four reads leave behind:
\*   kind   "break" (line 207), "throw" (an exception leaves the function) or "next"
\*   st     the loop state after it
\*   nread  how many of the three result paths had their status queried
IterationOutcome(st, gtC, files, parsed) ==
  IF StatusFails(gtC)
  THEN [kind |-> "throw", st |-> st, nread |-> 0]
  ELSE IF ~LoopContinues(gtC)
  THEN [kind |-> "break", st |-> st, nread |-> 0]
  ELSE
    LET gtRead == read_pose_from_file(gtC, parsed[1])
        validReloc == pose_file_matches(gtRead.pose, files[1], parsed[2])
        validICP == pose_file_matches(gtRead.pose, files[2], parsed[3])
        validFinal == pose_file_matches(gtRead.pose, files[3], parsed[4])
    IN  IF gtRead.thrown
        THEN [kind |-> "throw", st |-> st, nread |-> 0]
        ELSE IF validReloc.thrown
        THEN [kind |-> "throw", st |-> st, nread |-> 1]
        ELSE IF validICP.thrown
        THEN [kind |-> "throw", st |-> st, nread |-> 2]
        ELSE IF validFinal.thrown
        THEN [kind |-> "throw", st |-> st, nread |-> 3]
        ELSE [kind |-> "next",
              st |-> Advance(st, AccumulateStats(st.res, validReloc.match,
                                                 validICP.match, validFinal.match)),
              nread |-> 3]

\* The matrices the reads of one iteration can leave behind.
ParsedPoses(gtC, files) ==
  {<<g, p1, p2, p3>> : g \in ReadablePoses(gtC), p1 \in ReadablePoses(files[1]),
                       p2 \in ReadablePoses(files[2]), p3 \in ReadablePoses(files[3])}

\* A folder is the sequence of what its paths of index 0, 1, ... refer to; every
\* path past its end is missing.
GtFileAt(folder, index) ==
  IF index + 1 \in DOMAIN folder THEN folder[index + 1] ELSE Missing

RelocFilesAt(folder, index) ==
  IF index + 1 \in DOMAIN folder THEN folder[index + 1] ELSE <<Missing, Missing, Missing>>

\* evaluate_sequence as a function of the two folders: every way the call can end,
\* [thrown |-> TRUE] or [thrown |-> FALSE, res |-> the SequenceResults returned].
RECURSIVE EvaluateFrom(_, _, _)
EvaluateFrom(gtDir, relocDir, st) ==
  LET gtC == GtFileAt(gtDir, st.gtIndex)
      files == RelocFilesAt(relocDir, st.relocIndex)
  IN  UNION { LET o == IterationOutcome(st, gtC, files, parsed)
              IN  IF o.kind = "break" THEN {[thrown |-> FALSE, res |-> o.st.res]}
                  ELSE IF o.kind = "throw" THEN {[thrown |-> TRUE, res |-> EmptyResults]}
                  ELSE EvaluateFrom(gtDir, relocDir, o.st)
              : parsed \in ParsedPoses(gtC, files) }

evaluate_sequence(gtDir, relocDir) == EvaluateFrom(gtDir, relocDir, LoopStart)

\* ------------------------------------------------------ float values

\* A float of main: an exact rational n/d in lowest terms (d > 0), nan or +-inf.
RECURSIVE Gcd(_, _)
Gcd(a, b) == IF b = 0 THEN a ELSE Gcd(b, a % b)

Frac(n, d) ==
  LET g == Gcd(IF n < 0 THEN -n ELSE n, d)
  IN  [k |-> "num", n |-> n \div g, d |-> d \div g]

NaN == [k |-> "nan", n |-> 0, d |-> 0]

Inf(sign) == [k |-> "inf", n |-> sign, d |-> 0]

\* static_cast<float>(i), and the promotion of an int operand.
FInt(i) == Frac(i, 1)

Sign(n) == IF n < 0 THEN -1 ELSE IF n > 0 THEN 1 ELSE 0

FAdd(a, b) ==
  IF a.k = "nan" \/ b.k = "nan" THEN NaN
  ELSE IF a.k = "inf" /\ b.k = "inf" THEN (IF a.n = b.n THEN a ELSE NaN)
  ELSE IF a.k = "inf" THEN a
  ELSE IF b.k = "inf" THEN b
  ELSE Frac(a.n * b.d + b.n * a.d, a.d * b.d)

FMul(a, b) ==
  IF a.k = "nan" \/ b.k = "nan" THEN NaN
  ELSE IF a.k = "inf" \/ b.k = "inf"
  THEN (IF Sign(a.n) * Sign(b.n) = 0 THEN NaN ELSE Inf(Sign(a.n) * Sign(b.n)))
  ELSE Frac(a.n * b.n, a.d * b.d)

\* IEEE division: x/0 is +-inf, 0/0 is nan.
FDiv(a, b) ==
  IF a.k = "nan" \/ b.k = "nan" THEN NaN
  ELSE IF a.k = "inf" /\ b.k = "inf" THEN NaN
  ELSE IF a.k = "inf" THEN Inf(IF b.n < 0 THEN -a.n ELSE a.n)
  ELSE IF b.k = "inf" THEN FInt(0)
  ELSE IF b.n = 0 THEN (IF a.n = 0 THEN NaN ELSE Inf(Sign(a.n)))
  ELSE Frac(a.n * b.d * Sign(b.n), a.d * b.n * Sign(b.n))

\* ------------------------------------------------------------------ main

\* std::map<std::string, SequenceResults>: a function on the keys inserted so far.
MapPut(m, key, value) ==
  [x \in DOMAIN m \cup {key} |-> IF x = key THEN value ELSE m[x]]

\* results[sequence] as an rvalue: a missing key is inserted default-constructed.
MapIndex(m, key) == IF key \in DOMAIN m THEN m ELSE MapPut(m, key, EmptyResults)

RECURSIVE MapIndexAll(_, _)
MapIndexAll(m, keys) ==
  IF keys = <<>> THEN m ELSE MapIndexAll(MapIndex(m, Head(keys)), Tail(keys))

RECURSIVE SortedSeq(_)
SortedSeq(S) ==
  IF S = {} THEN <<>>
  ELSE LET least == CHOOSE x \in S : \A y \in S : x <= y
       IN  <<least>> \o SortedSeq(S \ {least})

\* find_sequence_names: the sub-folders with both a train and a test sub-folder,
\* sorted by name.
find_sequence_names(dirs) ==
  SortedSeq({name \in DOMAIN dirs : dirs[name].hasTrain /\ dirs[name].hasTest})

\* Line 294: the ground-truth folder of a sequence.
GtPathOf(dirs, validation, sequence) ==
  IF validation THEN dirs[sequence].validation ELSE dirs[sequence].test

\* Line 295: the folder of its relocalised poses.
RelocFolderOf(dirs, sequence) == dirs[sequence].reloc

\* Lines 321-331: one row of the table.
TableRow(sequence, seqResult) ==
  [sequence |-> sequence,
   poseCount |-> seqResult.poseCount,
   relocPct |-> FMul(FDiv(FInt(seqResult.validPosesAfterReloc), FInt(seqResult.poseCount)), FInt(100)),
   icpPct |-> FMul(FDiv(FInt(seqResult.validPosesAfterICP), FInt(seqResult.poseCount)), FInt(100)),
   finalPct |-> FMul(FDiv(FInt(seqResult.validFinalPoses), FInt(seqResult.poseCount)), FInt(100))]

\* Lines 335-342.
SumsStart ==
  [relocSum |-> FInt(0), icpSum |-> FInt(0), finalSum |-> FInt(0),
   relocRawSum |-> FInt(0), icpRawSum |-> FInt(0), finalRawSum |-> FInt(0),
   poseCount |-> 0]

\* AddSequence reading validPosesAfterICP where the raw stage is summed.
AddSequenceIcpForReloc(sums, seqResult) ==
  [relocSum |-> FAdd(sums.relocSum, FDiv(FInt(seqResult.validPosesAfterICP), FInt(seqResult.poseCount))),
   icpSum |-> FAdd(sums.icpSum, FDiv(FInt(seqResult.validPosesAfterICP), FInt(seqResult.poseCount))),
   finalSum |-> FAdd(sums.finalSum, FDiv(FInt(seqResult.validFinalPoses), FInt(seqResult.poseCount))),
   relocRawSum |-> FAdd(sums.relocRawSum, FInt(seqResult.validPosesAfterICP)),
   icpRawSum |-> FAdd(sums.icpRawSum, FInt(seqResult.validPosesAfterICP)),
   finalRawSum |-> FAdd(sums.finalRawSum, FInt(seqResult.validFinalPoses)),
   poseCount |-> sums.poseCount + seqResult.poseCount]

\* Lines 346-360: one sequence added to the running sums.
AddSequence(sums, seqResult) ==
  [relocSum |-> FAdd(sums.relocSum, FDiv(FInt(seqResult.validPosesAfterReloc), FInt(seqResult.poseCount))),
   icpSum |-> FAdd(sums.icpSum, FDiv(FInt(seqResult.validPosesAfterICP), FInt(seqResult.poseCount))),
   finalSum |-> FAdd(sums.finalSum, FDiv(FInt(seqResult.validFinalPoses), FInt(seqResult.poseCount))),
   relocRawSum |-> FAdd(sums.relocRawSum, FInt(seqResult.validPosesAfterReloc)),
   icpRawSum |-> FAdd(sums.icpRawSum, FInt(seqResult.validPosesAfterICP)),
   finalRawSum |-> FAdd(sums.finalRawSum, FInt(seqResult.validFinalPoses)),
   poseCount |-> sums.poseCount + seqResult.poseCount]

\* Lines 344-361: the loop over sequenceNames.
RECURSIVE SumSequences(_, _, _)
SumSequences(sums, names, m) ==
  IF names = <<>> THEN sums
  ELSE SumSequences(AddSequence(sums, MapIndex(m, Head(names))[Head(names)]), Tail(names), m)

\* Lines 363-369: the six averages, in percent.
Averages(sums, nSequences) ==
  [relocAvg |-> FMul(FDiv(sums.relocSum, FInt(nSequences)), FInt(100)),
   icpAvg |-> FMul(FDiv(sums.icpSum, FInt(nSequences)), FInt(100)),
   finalAvg |-> FMul(FDiv(sums.finalSum, FInt(nSequences)), FInt(100)),
   relocWeightedAvg |-> FMul(FDiv(sums.relocRawSum, FInt(sums.poseCount)), FInt(100)),
   icpWeightedAvg |-> FMul(FDiv(sums.icpRawSum, FInt(sums.poseCount)), FInt(100)),
   finalWeightedAvg |-> FMul(FDiv(sums.finalRawSum, FInt(sums.poseCount)), FInt(100)),
   nSequences |-> nSequences,
   poseCount |-> sums.poseCount]

\* Lines 411-425: the data rows of one sequence's CSV file, from row poseIdx on.
RECURSIVE CsvRows(_, _, _, _)
CsvRows(seqResult, poseIdx, relocSum, icpSum) ==
  IF ~(poseIdx < seqResult.poseCount) THEN <<>>
  ELSE
    LET relocSuccess == seqResult.relocalizationResults[poseIdx + 1]
        icpSuccess == seqResult.icpResults[poseIdx + 1]
        relocSum1 == relocSum + B2I(relocSuccess)
        icpSum1 == icpSum + B2I(icpSuccess)
    IN  <<[poseIdx |-> poseIdx,
           framePct |-> FDiv(FInt(poseIdx), FInt(seqResult.poseCount)),
           relocSuccess |-> relocSuccess,
           relocSum |-> relocSum1,
           relocPct |-> FDiv(FInt(relocSum1), FInt(poseIdx)),
           icpSuccess |-> icpSuccess,
           icpSum |-> icpSum1,
           icpPct |-> FDiv(FInt(icpSum1), FInt(poseIdx))]>>
        \o CsvRows(seqResult, poseIdx + 1, relocSum1, icpSum1)

\* ------------------------------------------------------- idle components

SeqIdle ==
  /\ pc = "idle"
  /\ gtFolder = <<>>
  /\ relocFolder = <<>>
  /\ gtIndex = 0
  /\ relocIndex = 0
  /\ res = EmptyResults
  /\ accessed = {}

PoseIdle ==
  /\ mpc = "idle"
  /\ argGtPose = NoPose
  /\ argTestPose = NoPose
  /\ matched = FALSE

MainIdle ==
  /\ mainPc = "idle"
  /\ dataset = <<>>
  /\ useValidation = FALSE
  /\ onlineEvaluation = FALSE
  /\ sequenceNames = <<>>
  /\ sequenceIdx = 0
  /\ results = <<>>
  /\ stderr = <<>>
  /\ averages = <<>>
  /\ stdout = <<>>
  /\ csv = <<>>

\* ------------------------------------------------------------ SpecPose

TranslationSamples ==
  {<<x, y, z>> : x \in {0, 30, 50, 51}, y \in {0, 40}, z \in {0, 1}}

AngleSamples == {0, 499, 500, 501, HalfTurn, FullTurn - 501, FullTurn - 500}

InitPose ==
  /\ mpc = "call"
  /\ argGtPose \in {Pose(0, 0, 0, a) : a \in {0, 250, FullTurn - 250}}
  /\ argTestPose \in {[t |-> t, r |-> a] : t \in TranslationSamples, a \in AngleSamples}
  /\ matched = FALSE
  /\ SeqIdle
  /\ MainIdle

Match ==
  /\ mpc = "call"
  /\ matched' = pose_matches(argGtPose, argTestPose)
  /\ mpc' = "returned"
  /\ UNCHANGED <<argGtPose, argTestPose, seqVars, mainVars>>

NextPose == Match

SpecPose == InitPose /\ [][NextPose]_vars

\* -------------------------------------------------------- SpecSequence

\* The result files of one frame, <<reloc, icp, final>>, in the folders of
\* SpecSequence: every stage missing while the others are present, matching and
\* non-matching poses at every stage, a malformed and an inaccessible file.
ResTriples ==
  { <<Missing, Missing, Missing>>,
    <<PoseFile(NearPose), Missing, PoseFile(FarPose)>>,
    <<Missing, PoseFile(NearPose), PoseFile(NearPose)>>,
    <<PoseFile(FarPose), PoseFile(NearPose), Missing>>,
    <<PoseFile(NearPose), Malformed, PoseFile(NearPose)>>,
    <<PoseFile(NearPose), Inaccessible, PoseFile(NearPose)>> }

InitSequence ==
  /\ pc = "iterate"
  /\ gtFolder \in [1..MaxFrames -> GtContents]
  /\ relocFolder \in [1..MaxFrames -> ResTriples]
  /\ gtIndex = LoopStart.gtIndex
  /\ relocIndex = LoopStart.relocIndex
  /\ res = LoopStart.res
  /\ accessed = {}
  /\ PoseIdle
  /\ MainIdle

LoopState == [res |-> res, gtIndex |-> gtIndex, relocIndex |-> relocIndex]

QueriedPaths(st, o) ==
  LET paths == IterationPaths(st)
  IN  {paths.gt}
      \cup (IF o.nread >= 1 THEN {paths.reloc} ELSE {})
      \cup (IF o.nread >= 2 THEN {paths.icp} ELSE {})
      \cup (IF o.nread >= 3 THEN {paths.final} ELSE {})

\* One iteration of the loop ending in kind.
Iteration(kind) ==
  LET gtC == GtFileAt(gtFolder, gtIndex)
      files == RelocFilesAt(relocFolder, relocIndex)
  IN  \E parsed \in ParsedPoses(gtC, files) :
        LET o == IterationOutcome(LoopState, gtC, files, parsed)
        IN  /\ o.kind = kind
            /\ res' = o.st.res
            /\ gtIndex' = o.st.gtIndex
            /\ relocIndex' = o.st.relocIndex
            /\ accessed' = accessed \cup QueriedPaths(LoopState, o)

\* The ground-truth file is missing: break, return res (lines 207, 232).
EvalBreak ==
  /\ pc = "iterate"
  /\ Iteration("break")
  /\ pc' = "done"
  /\ UNCHANGED <<gtFolder, relocFolder, poseVars, mainVars>>

\* A whole iteration: the frame is evaluated and counted (lines 210-229).
EvalFrame ==
  /\ pc = "iterate"
  /\ Iteration("next")
  /\ pc' = "iterate"
  /\ UNCHANGED <<gtFolder, relocFolder, poseVars, mainVars>>

\* An exception leaves evaluate_sequence.
EvalThrow ==
  /\ pc = "iterate"
  /\ Iteration("throw")
  /\ pc' = "thrown"
  /\ UNCHANGED <<gtFolder, relocFolder, poseVars, mainVars>>

NextSequence == EvalBreak \/ EvalFrame \/ EvalThrow

SpecSequence == InitSequence /\ [][NextSequence]_vars

\* The result folders of SpecSequenceFair: one kind of frame at index 0 and one kind
\* at every later index.
TwoKindFolders ==
  {[i \in 1..MaxFrames |-> IF i = 1 THEN first ELSE rest] :
     first \in ResTriples, rest \in ResTriples}

InitSequenceFair ==
  /\ pc = "iterate"
  /\ gtFolder \in [1..MaxFrames -> GtContents]
  /\ relocFolder \in TwoKindFolders
  /\ gtIndex = LoopStart.gtIndex
  /\ relocIndex = LoopStart.relocIndex
  /\ res = LoopStart.res
  /\ accessed = {}
  /\ PoseIdle
  /\ MainIdle

\* The loop is the only thread: an enabled iteration is taken.
SpecSequenceFair == InitSequenceFair /\ [][NextSequence]_vars /\ WF_vars(NextSequence)

\* ---------------------------------------------------------- SpecDriver

GtOk(n) == [i \in 1..n |-> PoseFile(GtPose0)]

\* n frames of result files; stage j matches on the first k[j] frames.
RelocMatching(n, k) ==
  [i \in 1..n |-> [j \in 1..3 |-> IF i <= k[j] THEN PoseFile(NearPose) ELSE PoseFile(FarPose)]]

Dir(hasTest, test, validation, reloc) ==
  [hasTrain |-> TRUE, hasTest |-> hasTest, test |-> test, validation |-> validation,
   reloc |-> reloc]

NotASequence == Dir(FALSE, <<>>, <<>>, <<>>)

\* One frame at 100% and nine frames at 0% (no result files at all): the 10-frame
\* and 90-frame sequences of the aggregation example, at a tenth of their length.
Perfect1 == Dir(TRUE, GtOk(1), GtOk(1), RelocMatching(1, <<1, 1, 1>>))

Nothing9 == Dir(TRUE, GtOk(9), <<>>, <<>>)

Office == Dir(TRUE, GtOk(20), GtOk(4), RelocMatching(20, <<18, 20, 19>>))

Kitchen == Dir(TRUE, GtOk(30), <<>>, RelocMatching(30, <<15, 20, 10>>))

EmptyTest == Dir(TRUE, <<>>, <<>>, RelocMatching(2, <<2, 2, 2>>))

Unreadable ==
  Dir(TRUE, <<PoseFile(GtPose0), PoseFile(GtPose0), Inaccessible>>, <<Inaccessible>>,
      RelocMatching(3, <<3, 3, 3>>))

Mixed2 ==
  Dir(TRUE, GtOk(2), GtOk(1),
      << <<PoseFile(FarPose), PoseFile(NearPose), Missing>>,
         <<PoseFile(NearPose), PoseFile(FarPose), PoseFile(NearPose)>> >>)

Garbled1 ==
  Dir(TRUE, GtOk(1), <<Malformed>>, << <<Malformed, PoseFile(NearPose), PoseFile(NearPose)>> >>)

\* The sub-folders a dataset folder of SpecDriver is made of.
DirFixtures ==
  {NotASequence, Perfect1, Nothing9, Office, Kitchen, EmptyTest, Unreadable, Mixed2,
   Garbled1}

\* The state once the options are parsed (line 281).
InitDriver ==
  /\ mainPc = "discover"
  /\ dataset \in [1..NumDirs -> DirFixtures]
  /\ useValidation \in BOOLEAN
  /\ onlineEvaluation \in BOOLEAN
  /\ sequenceNames = <<>>
  /\ sequenceIdx = 0
  /\ results = <<>>
  /\ stderr = <<>>
  /\ averages = <<>>
  /\ stdout = <<>>
  /\ csv = <<>>
  /\ PoseIdle
  /\ SeqIdle

\* Lines 284-286.
Discover ==
  /\ mainPc = "discover"
  /\ sequenceNames' = find_sequence_names(dataset)
  /\ sequenceIdx' = 0
  /\ results' = <<>>
  /\ mainPc' = "evaluate"
  /\ UNCHANGED <<dataset, useValidation, onlineEvaluation, stderr, averages, stdout, csv,
                 poseVars, seqVars>>

\* The ways the call of line 300 can end for the sequence at sequenceIdx.
CurrentOutcomes ==
  LET sequence == sequenceNames[sequenceIdx + 1]
  IN  evaluate_sequence(GtPathOf(dataset, useValidation, sequence),
                        RelocFolderOf(dataset, sequence))

\* Lines 289-301: evaluate_sequence returns and its result is stored.
EvaluateReturn ==
  /\ mainPc = "evaluate"
  /\ sequenceIdx < Len(sequenceNames)
  /\ \E o \in CurrentOutcomes :
       /\ ~o.thrown
       /\ results' = MapPut(results, sequenceNames[sequenceIdx + 1], o.res)
  /\ sequenceIdx' = sequenceIdx + 1
  /\ UNCHANGED <<mainPc, dataset, useValidation, onlineEvaluation, sequenceNames, stderr,
                 averages, stdout, csv, poseVars, seqVars>>

\* EvaluateCatch without the try block: the exception leaves main.
EvaluateRethrow ==
  /\ mainPc = "evaluate"
  /\ sequenceIdx < Len(sequenceNames)
  /\ \E o \in CurrentOutcomes : o.thrown
  /\ mainPc' = "exit"
  /\ UNCHANGED <<dataset, useValidation, onlineEvaluation, sequenceNames, sequenceIdx,
                 results, stderr, averages, stdout, csv, poseVars, seqVars>>

\* Lines 298-305: evaluate_sequence throws; the exception is caught, a message is
\* printed and the loop goes on.  Whether results[sequence] was evaluated (and the
\* key inserted) before the call threw is unspecified before C++17.
EvaluateCatch ==
  /\ mainPc = "evaluate"
  /\ sequenceIdx < Len(sequenceNames)
  /\ \E o \in CurrentOutcomes : o.thrown
  /\ \E inserted \in BOOLEAN :
       results' = IF inserted THEN MapIndex(results, sequenceNames[sequenceIdx + 1])
                  ELSE results
  /\ stderr' = Append(stderr, [kind |-> "not_evaluated",
                               sequence |-> sequenceNames[sequenceIdx + 1]])
  /\ sequenceIdx' = sequenceIdx + 1
  /\ UNCHANGED <<mainPc, dataset, useValidation, onlineEvaluation, sequenceNames,
                 averages, stdout, csv, poseVars, seqVars>>

RECURSIVE TableRows(_, _)
TableRows(names, m) ==
  IF names = <<>> THEN <<>>
  ELSE <<[kind |-> "row", row |-> TableRow(Head(names), MapIndex(m, Head(names))[Head(names)])]>>
       \o TableRows(Tail(names), m)

\* Lines 308-332: the table, one row per sequence name.
PrintTable ==
  /\ mainPc = "evaluate"
  /\ sequenceIdx = Len(sequenceNames)
  /\ stderr' = stderr \o TableRows(sequenceNames, results)
  /\ results' = MapIndexAll(results, sequenceNames)
  /\ mainPc' = "averages"
  /\ UNCHANGED <<dataset, useValidation, onlineEvaluation, sequenceNames, sequenceIdx,
                 averages, stdout, csv, poseVars, seqVars>>

\* Lines 334-390: the averages, and the score printed for the parameter search.
ComputeAverages ==
  /\ mainPc = "averages"
  /\ averages' = Averages(SumSequences(SumsStart, sequenceNames, results), Len(sequenceNames))
  /\ stdout' = IF useValidation THEN Append(stdout, averages'.icpWeightedAvg) ELSE stdout
  /\ mainPc' = "export"
  /\ UNCHANGED <<dataset, useValidation, onlineEvaluation, sequenceNames, sequenceIdx,
                 results, stderr, csv, poseVars, seqVars>>

\* Lines 393-427: one CSV file per sequence.
ExportCsv ==
  /\ mainPc = "export"
  /\ onlineEvaluation
  /\ csv' = [i \in 1..Len(sequenceNames) |->
               [sequence |-> sequenceNames[i],
                rows |-> CsvRows(MapIndex(results, sequenceNames[i])[sequenceNames[i]], 0, 0, 0)]]
  /\ mainPc' = "exit"
  /\ UNCHANGED <<dataset, useValidation, onlineEvaluation, sequenceNames, sequenceIdx,
                 results, stderr, averages, stdout, poseVars, seqVars>>

\* Line 393 with onlineEvaluation unset, then return 0.
SkipExport ==
  /\ mainPc = "export"
  /\ ~onlineEvaluation
  /\ mainPc' = "exit"
  /\ UNCHANGED <<dataset, useValidation, onlineEvaluation, sequenceNames, sequenceIdx,
                 results, stderr, averages, stdout, csv, poseVars, seqVars>>

NextDriver ==
  \/ Discover
  \/ EvaluateReturn
  \/ EvaluateCatch
  \/ PrintTable
  \/ ComputeAverages
  \/ ExportCsv
  \/ SkipExport

SpecDriver == InitDriver /\ [][NextDriver]_vars

\* ------------------------------------------------- claims: SpecPose

Abs(n) == IF n < 0 THEN -n ELSE n

\* The translation error, squared: the squared distance of the two translations.
TranslationErrorSq(g, t) ==
  LET d == [i \in 1..3 |-> Abs(g.t[i] - t.t[i])]
  IN  d[1] * d[1] + d[2] * d[2] + d[3] * d[3]

\* The rotation error is at most m: the two angles differ by at most m up to a
\* whole turn.
RotationErrorAtMost(g, t, m) ==
  \E k \in {-1, 0, 1} : Abs(t.r - g.r + k * FullTurn) <= m

\* C3: pose_matches returns true iff the translation error is <= 0.05 m (50 mm) and
\* the rotation error is <= 5 degrees (500 hundredths); both thresholds are
\* non-strict, either violation alone is a non-match, identical poses match.
C3_MatchIffBothWithin ==
  mpc = "returned" =>
    /\ matched <=> (/\ TranslationErrorSq(argGtPose, argTestPose) <= 50 * 50
                    /\ RotationErrorAtMost(argGtPose, argTestPose, 500))
    /\ argGtPose = argTestPose => matched
    /\ TranslationErrorSq(argGtPose, argTestPose) > 50 * 50 => ~matched
    /\ ~RotationErrorAtMost(argGtPose, argTestPose, 500) => ~matched
    /\ (/\ TranslationErrorSq(argGtPose, argTestPose) = 50 * 50
        /\ Abs(argTestPose.r - argGtPose.r) = 500) => matched

\* A call that returned true with both errors exactly at their thresholds.
C3_Witness ==
  /\ mpc = "returned"
  /\ matched
  /\ argGtPose = Pose(0, 0, 0, 0)
  /\ argTestPose = Pose(30, 40, 0, 500)

\* --------------------------------------------- claims: SpecSequence

RECURSIVE CountTrue(_)
CountTrue(v) == IF v = <<>> THEN 0 ELSE B2I(Head(v)) + CountTrue(Tail(v))

\* The length of the contiguous zero-based run of ground-truth files on disk: the
\* smallest index whose ground-truth path is no regular file.
PrefixLen ==
  CHOOSE k \in 0..Len(gtFolder) :
    /\ \A i \in 1..k : gtFolder[i].kind \in {"pose", "malformed"}
    /\ k < Len(gtFolder) => gtFolder[k + 1].kind \notin {"pose", "malformed"}

\* The vector of stage j (1 raw, 2 refined, 3 verified) and its counter.
StageVector(r, j) ==
  IF j = 1 THEN r.relocalizationResults ELSE IF j = 2 THEN r.icpResults ELSE r.finalResults

StageCount(r, j) ==
  IF j = 1 THEN r.validPosesAfterReloc ELSE IF j = 2 THEN r.validPosesAfterICP ELSE r.validFinalPoses

\* C1: after every iteration and in the returned SequenceResults, each of the three
\* vectors has exactly poseCount elements and each counter is the number of true
\* entries of its vector.
C1_VectorsAndCounts ==
  \A j \in 1..3 :
    /\ Len(StageVector(res, j)) = res.poseCount
    /\ StageCount(res, j) = CountTrue(StageVector(res, j))

\* A returned result of two or more frames, some matched and some not.
C1_Witness ==
  /\ pc = "done"
  /\ res.poseCount >= 2
  /\ res.validPosesAfterReloc >= 1
  /\ res.validPosesAfterReloc < res.poseCount

\* C2: the returned poseCount is the length of the contiguous zero-based prefix of
\* ground-truth files, no path of a larger index has its status queried, and with
\* frame 0 missing the call returns the empty SequenceResults without an error.
C2_StopsAtFirstGap ==
  /\ pc = "done" => res.poseCount = PrefixLen
  /\ \A p \in accessed : p.index <= PrefixLen
  /\ gtFolder[1] = Missing =>
       /\ pc # "thrown"
       /\ pc = "done" => res = EmptyResults

\* Frame 0 present, frame 1 missing, frame 2 present: returned with one frame.
C2_Witness ==
  /\ pc = "done"
  /\ res.poseCount = 1
  /\ gtFolder[2] = Missing
  /\ gtFolder[3].kind = "pose"

\* The frame the loop is at (or threw at) has a file whose status query fails.
ThrowIsStatusFailure ==
  \/ GtFileAt(gtFolder, gtIndex) = Inaccessible
  \/ \E j \in 1..3 : RelocFilesAt(relocFolder, relocIndex)[j] = Inaccessible

\* C4: for a frame whose ground-truth file is present, a missing result file of a
\* stage gives a false outcome of that stage and raises no error, the other stages
\* are evaluated on their own files, and the scan goes on: with no result files at
\* all, poseCount is the number of ground-truth frames and the three counts are 0.
C4_MissingResultIsNoMatch ==
  /\ \A i \in 1..res.poseCount : \A j \in 1..3 :
       /\ relocFolder[i][j] = Missing => StageVector(res, j)[i] = FALSE
       /\ (gtFolder[i].kind = "pose" /\ relocFolder[i][j].kind = "pose") =>
            (StageVector(res, j)[i] <=> relocFolder[i][j] = PoseFile(NearPose))
  /\ pc = "thrown" => ThrowIsStatusFailure
  /\ (pc = "done" /\ \A i \in 1..Len(relocFolder) : relocFolder[i] = <<Missing, Missing, Missing>>) =>
       /\ res.poseCount = PrefixLen
       /\ \A j \in 1..3 : StageCount(res, j) = 0

\* A counted frame, not the last one, with a stage missing and another stage matched.
C4_Witness ==
  /\ pc = "done"
  /\ res.poseCount >= 2
  /\ relocFolder[1][2] = Missing
  /\ res.relocalizationResults[1] = TRUE
  /\ res.icpResults[1] = FALSE

\* C5: a frame with a present but malformed pose file (ground truth or result) makes
\* the evaluation fail; it is never counted into the SequenceResults.
C5_MalformedIsFatal ==
  \A i \in 1..res.poseCount :
    /\ gtFolder[i] # Malformed
    /\ \A j \in 1..3 : relocFolder[i][j] # Malformed

\* The four paths of the next iteration carry one index, the number of frames counted.
Lockstep ==
  LET paths == IterationPaths(LoopState)
  IN  /\ paths.gt.index = res.poseCount
      /\ paths.reloc.index = paths.gt.index
      /\ paths.icp.index = paths.gt.index
      /\ paths.final.index = paths.gt.index

\* C10: the frame loop ends: it returns, or an exception leaves it at a path whose
\* status query fails.  The index starts at 0, both generators advance by exactly 1
\* per iteration in lockstep, and the loop exits at the first index whose
\* ground-truth file is missing.
C10_LoopTerminates ==
  /\ <>(pc = "done" \/ (pc = "thrown" /\ ThrowIsStatusFailure))
  /\ [](Lockstep)
  /\ [][\/ gtIndex' = gtIndex + 1 /\ relocIndex' = relocIndex + 1 /\ pc' = "iterate"
        \/ gtIndex' = gtIndex /\ relocIndex' = relocIndex /\ pc' # "iterate"]_vars
  /\ [](pc = "done" => gtIndex = PrefixLen /\ GtFileAt(gtFolder, gtIndex) = Missing)

\* The loop returned after two or more iterations.
C10_Witness ==
  /\ pc = "done"
  /\ gtIndex >= 2
  /\ relocIndex = gtIndex

\* ----------------------------------------------- claims: SpecDriver

\* The table row printed for a sequence.
RowsOf(sequence) ==
  {i \in 1..Len(stderr) : stderr[i].kind = "row" /\ stderr[i].row.sequence = sequence}

Reported(sequence) ==
  \E i \in 1..Len(stderr) : stderr[i] = [kind |-> "not_evaluated", sequence |-> sequence]

\* What evaluate_sequence does on the folders of a sequence, whatever the others do.
OwnOutcomes(sequence) ==
  evaluate_sequence(GtPathOf(dataset, useValidation, sequence), RelocFolderOf(dataset, sequence))

\* C6: when evaluate_sequence throws for one sequence, every other sequence is still
\* evaluated and holds the result of its own folders, and the failed sequence is in
\* the summary with poseCount 0 and all three match counts 0.
C6_FailureIsIsolated ==
  mainPc = "exit" =>
    \A i \in 1..Len(sequenceNames) :
      LET sequence == sequenceNames[i]
      IN  /\ sequence \in DOMAIN results
          /\ \/ \E o \in OwnOutcomes(sequence) : ~o.thrown /\ results[sequence] = o.res
             \/ /\ \E o \in OwnOutcomes(sequence) : o.thrown
                /\ Reported(sequence)
                /\ results[sequence].poseCount = 0
                /\ \A j \in 1..3 : StageCount(results[sequence], j) = 0
                /\ \A j \in 1..3 : StageVector(results[sequence], j) = <<>>
          /\ Cardinality(RowsOf(sequence)) = 1
          /\ \A r \in RowsOf(sequence) : stderr[r].row.poseCount = results[sequence].poseCount

\* The first sequence fails after two counted frames; the second is evaluated.
C6_Witness ==
  /\ mainPc = "exit"
  /\ ~useValidation
  /\ dataset = <<Unreadable, Office>>
  /\ results[1] = EmptyResults
  /\ results[2].poseCount = 20
  /\ results[2].validPosesAfterReloc = 18

RECURSIVE SeqSum(_)
SeqSum(q) == IF q = <<>> THEN 0 ELSE Head(q) + SeqSum(Tail(q))

RECURSIVE SeqProd(_)
SeqProd(q) == IF q = <<>> THEN 1 ELSE Head(q) * SeqProd(Tail(q))

\* 100 * (c[1]/p[1] + ... + c[n]/p[n]) / n for positive p, over the common
\* denominator p[1] * ... * p[n].
MeanOfRatiosPct(c, p) ==
  LET all == SeqProd(p)
      num == SeqSum([i \in 1..Len(c) |-> c[i] * (all \div p[i])])
  IN  Frac(100 * num, Len(c) * all)

\* 100 * (c[1] + ... + c[n]) / (p[1] + ... + p[n]).
RatioOfSumsPct(c, p) == Frac(100 * SeqSum(c), SeqSum(p))

StageCounts(names, j) == [i \in 1..Len(names) |-> StageCount(results[names[i]], j)]

PoseCounts(names) == [i \in 1..Len(names) |-> results[names[i]].poseCount]

UnweightedOf(j) ==
  IF j = 1 THEN averages.relocAvg ELSE IF j = 2 THEN averages.icpAvg ELSE averages.finalAvg

WeightedOf(j) ==
  IF j = 1 THEN averages.relocWeightedAvg
  ELSE IF j = 2 THEN averages.icpWeightedAvg ELSE averages.finalWeightedAvg

AveragesComputed == mainPc \in {"export", "exit"}

\* C7: with every sequence of poseCount >= 1, the unweighted average of a stage is
\* the mean over sequences of count / poseCount and the weighted average is the sum
\* of counts over the sum of poseCounts: 100% of a short and 0% of a nine times longer
\* sequence give 50% and 10%; 18 of 20 and 15 of 30 give 70% and 66%.
C7_Averages ==
  (/\ AveragesComputed
   /\ Len(sequenceNames) >= 1
   /\ \A i \in 1..Len(sequenceNames) : results[sequenceNames[i]].poseCount >= 1) =>
    /\ \A j \in 1..3 :
         /\ UnweightedOf(j) = MeanOfRatiosPct(StageCounts(sequenceNames, j), PoseCounts(sequenceNames))
         /\ WeightedOf(j) = RatioOfSumsPct(StageCounts(sequenceNames, j), PoseCounts(sequenceNames))
    /\ (dataset = <<Perfect1, Nothing9>> /\ ~useValidation) =>
         averages.relocAvg = FInt(50) /\ averages.relocWeightedAvg = FInt(10)
    /\ (dataset = <<Office, Kitchen>> /\ ~useValidation) =>
         averages.relocAvg = FInt(70) /\ averages.relocWeightedAvg = FInt(66)

\* The averages of the 20-frame and the 30-frame sequence.
C7_Witness ==
  /\ mainPc = "exit"
  /\ ~useValidation
  /\ dataset = <<Office, Kitchen>>
  /\ results[1].poseCount = 20 /\ results[1].validPosesAfterReloc = 18
  /\ results[2].poseCount = 30 /\ results[2].validPosesAfterReloc = 15
  /\ averages.relocAvg = FInt(70)
  /\ averages.relocWeightedAvg = FInt(66)

\* The sequence names whose result has a frame.
RECURSIVE NonEmptyNames(_)
NonEmptyNames(names) ==
  IF names = <<>> THEN <<>>
  ELSE (IF results[Head(names)].poseCount >= 1 THEN <<Head(names)>> ELSE <<>>)
       \o NonEmptyNames(Tail(names))

\* C8: a sequence of poseCount 0 is left out of the unweighted average, which is the
\* mean of count / poseCount over the sequences of poseCount >= 1; no division by a
\* zero poseCount takes place.
C8_ZeroLengthExcluded ==
  (/\ AveragesComputed
   /\ \E i \in 1..Len(sequenceNames) : results[sequenceNames[i]].poseCount = 0
   /\ NonEmptyNames(sequenceNames) # <<>>) =>
    \A j \in 1..3 :
      UnweightedOf(j) = MeanOfRatiosPct(StageCounts(NonEmptyNames(sequenceNames), j),
                                        PoseCounts(NonEmptyNames(sequenceNames)))

\* C9: in every data row i of a CSV file the running raw and refined percentages are
\* the running match count up to and including frame i over i + 1.
C9_RunningPercentages ==
  (mainPc = "exit" /\ onlineEvaluation) =>
    \A f \in 1..Len(csv) : \A i \in 1..Len(csv[f].rows) :
      LET row == csv[f].rows[i]
      IN  /\ row.poseIdx = i - 1
          /\ row.relocPct = Frac(row.relocSum, row.poseIdx + 1)
          /\ row.icpPct = Frac(row.icpSum, row.poseIdx + 1)

====
